---- MODULE Spec2Model ----
(***************************************************************************)
(* Model of npc.py: Customer, Item, ShoppingCart and EShop.                *)
(*                                                                         *)
(* Money is fixed point, in thousandths of the currency unit, so that      *)
(* round(x, 2) is rounding to a multiple of 10 and "* 0.9" is exact on an  *)
(* amount that has been rounded to two decimals.                           *)
(*                                                                         *)
(* The program is sequential.  A call of make_purchase is modelled         *)
(* statement by statement (pc is the position in the running call, frame   *)
(* holds its locals and the state at call time); the cart operations and   *)
(* the shop's add_item are single steps.                                   *)
(***************************************************************************)
EXTENDS Integers, Sequences, FiniteSets, TLC

\* ---- bounds of the model ----
MaxEntries == 2     \* cart entries explored, over all carts together
MaxQty == 2         \* largest quantity / delta argument, largest entry quantity
MaxCatalog == 2     \* longest catalog explored
MaxPurchases == 2   \* successful purchases explored (length of the ledger)

\* ---- the objects that exist ----
Customers == {"regular", "golden customer"}
Items == {"i1", "i2", "i3"}
Dates == {"02.11.2026"}

\* Customer.customer_type: the customers are identified by their type.
customer_type(c) == c

\* Customer(..., balance): the balance each customer is constructed with.
InitBalance(c) == IF c = "regular" THEN 20 ELSE 39

\* Item(name, price, quantity): i1 and i3 carry the same name.
ItemName(i) == IF i = "i2" THEN "chips" ELSE "milk"
ItemPrice(i) == CASE i = "i1" -> 20 [] i = "i2" -> 16 [] OTHER -> 50
InitQuantity(i) == CASE i = "i1" -> 2 [] i = "i2" -> 1 [] OTHER -> 1

VARIABLES
    balance,            \* Customer.balance
    basket,             \* Customer.basket.items: sequence of <<item, quantity>>
    purchase_history,   \* Customer.purchase_history
    quantity,           \* Item.quantity
    shop_items,         \* EShop.items: sequence of items
    purchase_records,   \* EShop.purchase_records: sequence of <<customer, total_cost>>
    pc,                 \* position in the running call, "idle" between calls
    frame,              \* locals of the running call and the state it started in
    succeeded           \* the purchases that printed "Purchase successful!", in order

vars == <<balance, basket, purchase_history, quantity, shop_items,
          purchase_records, pc, frame, succeeded>>

\* ---- pure functions ----

\* round(x, 2) on thousandths: nearest multiple of 10, a tie goes to the
\* even hundredth (\div floors and % is non-negative, also for x < 0).
Round2(x) ==
    LET q == x \div 10
        r == x % 10
    IN  IF r < 5 THEN q * 10
        ELSE IF r > 5 THEN (q + 1) * 10
        ELSE IF q % 2 = 0 THEN q * 10 ELSE (q + 1) * 10

\* total_cost *= 0.9
Discount(x) == (x * 9) \div 10

\* The total that leaves the quantities out: the sum of the entries' prices.
RECURSIVE sum_of_prices(_)
sum_of_prices(items) ==
    IF items = <<>> THEN 0
    ELSE ItemPrice(Head(items)[1]) + sum_of_prices(Tail(items))

\* ShoppingCart.calculate_total_cost
RECURSIVE calculate_total_cost(_)
calculate_total_cost(items) ==
    IF items = <<>> THEN 0
    ELSE ItemPrice(Head(items)[1]) * Head(items)[2] + calculate_total_cost(Tail(items))

\* ShoppingCart.__repr__: the cart as text, one "name (quantity)" per entry.
CartRepr(items) == [x \in 1..Len(items) |-> <<ItemName(items[x][1]), items[x][2]>>]

\* The index of the last entry of the item instead of the first.
LastEntry(items, item) ==
    IF \E x \in 1..Len(items) : items[x][1] = item
    THEN CHOOSE x \in 1..Len(items) :
            /\ items[x][1] = item
            /\ \A y \in (x + 1)..Len(items) : items[y][1] # item
    ELSE 0

\* Index of the first cart entry whose item is the given object, 0 if none
\* (the for/if/break of remove_item, increase_quantity, decrease_quantity).
FirstEntry(items, item) ==
    IF \E x \in 1..Len(items) : items[x][1] = item
    THEN CHOOSE x \in 1..Len(items) :
            /\ items[x][1] = item
            /\ \A y \in 1..(x - 1) : items[y][1] # item
    ELSE 0

\* del self.items[x]
DelAt(items, x) == SubSeq(items, 1, x - 1) \o SubSeq(items, x + 1, Len(items))

\* Index of the first catalog item with the given name, 0 if none
\* (the inner loop of decrease_item_quantities).
FirstShopItem(catalog, name) ==
    IF \E k \in 1..Len(catalog) : ItemName(catalog[k]) = name
    THEN CHOOSE k \in 1..Len(catalog) :
            /\ ItemName(catalog[k]) = name
            /\ \A j \in 1..(k - 1) : ItemName(catalog[j]) # name
    ELSE 0

\* decrease_item_quantities without the break: every catalog item of the name
\* is decreased.
RECURSIVE decrease_every_match(_, _, _)
decrease_every_match(qty, catalog, items) ==
    IF items = <<>> THEN qty
    ELSE LET q == [i \in Items |->
                    qty[i] - (IF /\ \E k \in 1..Len(catalog) : catalog[k] = i
                                 /\ ItemName(i) = ItemName(Head(items)[1])
                              THEN Head(items)[2] ELSE 0)]
         IN  decrease_every_match(q, catalog, Tail(items))

\* decrease_item_quantities on the cart's own item objects (item.quantity -=
\* quantity), without the lookup by name in the catalog.
RECURSIVE decrease_cart_items(_, _, _)
decrease_cart_items(qty, catalog, items) ==
    IF items = <<>> THEN qty
    ELSE decrease_cart_items([qty EXCEPT ![Head(items)[1]] = @ - Head(items)[2]],
                             catalog, Tail(items))

\* EShop.decrease_item_quantities: the quantities after the loop over the basket.
RECURSIVE decrease_item_quantities(_, _, _)
decrease_item_quantities(qty, catalog, items) ==
    IF items = <<>> THEN qty
    ELSE LET k == FirstShopItem(catalog, ItemName(Head(items)[1]))
             q == IF k = 0 THEN qty
                  ELSE [qty EXCEPT ![catalog[k]] = @ - Head(items)[2]]
         IN  decrease_item_quantities(q, catalog, Tail(items))

\* The list read without [::-1].
NotReversed(s) == s

\* The reversed list, list[::-1].
Reversed(s) == [x \in 1..Len(s) |-> s[Len(s) + 1 - x]]

\* Number of cart entries that exist, over all carts.
RECURSIVE Entries(_)
Entries(cs) ==
    IF cs = {} THEN 0
    ELSE LET c == CHOOSE x \in cs : TRUE
         IN  Len(basket[c]) + Entries(cs \ {c})

\* ---- state ----

NoFrame == [op |-> "none"]

Init ==
    /\ balance = [c \in Customers |-> InitBalance(c)]
    /\ basket = [c \in Customers |-> <<>>]
    /\ purchase_history = [c \in Customers |-> <<>>]
    /\ quantity = [i \in Items |-> InitQuantity(i)]
    /\ shop_items = <<>>
    /\ purchase_records = <<>>
    /\ pc = "idle"
    /\ frame = NoFrame
    /\ succeeded = <<>>

\* ---- EShop.add_item ----
ShopAddItem(item) ==
    /\ pc = "idle"
    /\ Len(shop_items) < MaxCatalog
    /\ shop_items' = Append(shop_items, item)
    /\ UNCHANGED <<balance, basket, purchase_history, quantity, purchase_records, pc, frame, succeeded>>

\* add_item on a list that all carts share (items as a class attribute).
add_item_shared(c, item, q) ==
    /\ pc = "idle"
    /\ Entries(Customers) < MaxEntries
    /\ basket' = [d \in Customers |-> Append(basket[d], <<item, q>>)]
    /\ UNCHANGED <<balance, purchase_history, quantity, shop_items, purchase_records, pc, frame, succeeded>>

\* add_item that merges into an entry the cart already holds for the item.
add_item_merging(c, item, q) ==
    /\ pc = "idle"
    /\ Entries(Customers) < MaxEntries
    /\ LET x == FirstEntry(basket[c], item)
       IN  basket' = IF x = 0 THEN [basket EXCEPT ![c] = Append(@, <<item, q>>)]
                     ELSE [basket EXCEPT ![c][x] = <<item, @[2] + q>>]
    /\ UNCHANGED <<balance, purchase_history, quantity, shop_items, purchase_records, pc, frame, succeeded>>

\* ---- ShoppingCart ----
add_item(c, item, q) ==
    /\ pc = "idle"
    /\ Entries(Customers) < MaxEntries
    /\ basket' = [basket EXCEPT ![c] = Append(@, <<item, q>>)]
    /\ UNCHANGED <<balance, purchase_history, quantity, shop_items, purchase_records, pc, frame, succeeded>>

remove_item(c, item) ==
    /\ pc = "idle"
    /\ LET x == FirstEntry(basket[c], item)
       IN  basket' = IF x = 0 THEN basket
                     ELSE [basket EXCEPT ![c] = DelAt(@, x)]
    /\ UNCHANGED <<balance, purchase_history, quantity, shop_items, purchase_records, pc, frame, succeeded>>

increase_quantity(c, item, q) ==
    /\ pc = "idle"
    /\ LET x == FirstEntry(basket[c], item)
       IN  /\ x # 0 => basket[c][x][2] + q <= MaxQty
           /\ basket' = IF x = 0 THEN basket
                        ELSE [basket EXCEPT ![c][x] = <<item, @[2] + q>>]
    /\ UNCHANGED <<balance, purchase_history, quantity, shop_items, purchase_records, pc, frame, succeeded>>

\* decrease_quantity that deletes the entry only below zero (< for <=).
decrease_quantity_below_zero(c, item, q) ==
    /\ pc = "idle"
    /\ LET x == FirstEntry(basket[c], item)
       IN  basket' = IF x = 0 THEN basket
                     ELSE IF basket[c][x][2] - q < 0
                          THEN [basket EXCEPT ![c] = DelAt(@, x)]
                          ELSE [basket EXCEPT ![c][x] = <<item, @[2] - q>>]
    /\ UNCHANGED <<balance, purchase_history, quantity, shop_items, purchase_records, pc, frame, succeeded>>

decrease_quantity(c, item, q) ==
    /\ pc = "idle"
    /\ LET x == FirstEntry(basket[c], item)
       IN  basket' = IF x = 0 THEN basket
                     ELSE IF basket[c][x][2] - q <= 0
                          THEN [basket EXCEPT ![c] = DelAt(@, x)]
                          ELSE [basket EXCEPT ![c][x] = <<item, @[2] - q>>]
    /\ UNCHANGED <<balance, purchase_history, quantity, shop_items, purchase_records, pc, frame, succeeded>>

\* ---- Customer.make_purchase ----

\* The discount taken from the raw total, which is rounded only afterwards.
TotalCostDiscountFirst(c, items) ==
    IF customer_type(c) = "golden customer"
    THEN Round2(Discount(calculate_total_cost(items)))
    ELSE Round2(calculate_total_cost(items))

\* Lines 32-34: the total the funds check compares with the balance.
TotalCost(c, items) ==
    LET total_cost == Round2(calculate_total_cost(items))
    IN  IF customer_type(c) = "golden customer" THEN Discount(total_cost) ELSE total_cost

\* The funds check made on the amounts rounded to two decimals.
InsufficientFundsRounded(total_cost, bal) == Round2(total_cost) > Round2(bal)

\* Line 36: the condition under which make_purchase raises.
InsufficientFunds(total_cost, bal) == total_cost > bal

\* Lines 32-37 and 42: the call starts, computes the total and either raises
\* ValueError or goes on to record the purchase made on the given date.
make_purchase(c, date) ==
    /\ pc = "idle"
    /\ Len(purchase_records) < MaxPurchases
    /\ LET total_cost == TotalCost(c, basket[c])
       IN  /\ frame' = [op |-> "make_purchase", self |-> c,
                        total_cost |-> total_cost, purchase_date |-> date,
                        amount |-> 0,
                        pre |-> [balance |-> balance, basket |-> basket,
                                 purchase_history |-> purchase_history,
                                 quantity |-> quantity,
                                 purchase_records |-> purchase_records]]
           /\ pc' = IF InsufficientFunds(total_cost, balance[c]) THEN "raised" ELSE "history"
    /\ UNCHANGED <<balance, basket, purchase_history, quantity, shop_items,
                   purchase_records, succeeded>>

\* Lines 43-44: self.purchase_history.append(purchase_details)
append_history ==
    /\ pc = "history"
    /\ purchase_history' = [purchase_history EXCEPT ![frame.self] =
            Append(@, [date |-> frame.purchase_date,
                       items |-> CartRepr(basket[frame.self]),
                       total_cost |-> frame.total_cost])]
    /\ pc' = "records"
    /\ UNCHANGED <<balance, basket, quantity, shop_items, purchase_records, frame, succeeded>>

\* process_purchase that records the total as passed in, unrounded.
process_purchase_unrounded ==
    /\ pc = "records"
    /\ purchase_records' = Append(purchase_records, <<frame.self, frame.total_cost>>)
    /\ frame' = [frame EXCEPT !.amount = Round2(frame.total_cost)]
    /\ pc' = "balance"
    /\ UNCHANGED <<balance, basket, purchase_history, quantity, shop_items, succeeded>>

\* Lines 45, 129-130 (EShop.process_purchase): round the total, append the record.
process_purchase ==
    /\ pc = "records"
    /\ LET total_cost == Round2(frame.total_cost)
       IN  /\ purchase_records' = Append(purchase_records, <<frame.self, total_cost>>)
           /\ frame' = [frame EXCEPT !.amount = total_cost]
    /\ pc' = "balance"
    /\ UNCHANGED <<balance, basket, purchase_history, quantity, shop_items, succeeded>>

\* The balance decreased by make_purchase's total instead of the rounded one.
decrease_customer_balance_unrounded ==
    /\ pc = "balance"
    /\ balance' = [balance EXCEPT ![frame.self] = @ - frame.total_cost]
    /\ pc' = "quantities"
    /\ UNCHANGED <<basket, purchase_history, quantity, shop_items, purchase_records,
                   frame, succeeded>>

\* Lines 131, 134-136: EShop.decrease_customer_balance
decrease_customer_balance ==
    /\ pc = "balance"
    /\ balance' = [balance EXCEPT ![frame.self] = @ - frame.amount]
    /\ pc' = "quantities"
    /\ UNCHANGED <<basket, purchase_history, quantity, shop_items, purchase_records,
                   frame, succeeded>>

\* The quantities decreased and the cart emptied after the purchase.
decrease_quantities_and_clear ==
    /\ pc = "quantities"
    /\ quantity' = decrease_item_quantities(quantity, shop_items, basket[frame.self])
    /\ basket' = [basket EXCEPT ![frame.self] = <<>>]
    /\ pc' = "print"
    /\ UNCHANGED <<balance, purchase_history, shop_items, purchase_records,
                   frame, succeeded>>

\* Lines 132, 138-144: EShop.decrease_item_quantities(customer.basket)
decrease_quantities ==
    /\ pc = "quantities"
    /\ quantity' = decrease_item_quantities(quantity, shop_items, basket[frame.self])
    /\ pc' = "print"
    /\ UNCHANGED <<balance, basket, purchase_history, shop_items, purchase_records,
                   frame, succeeded>>

\* Line 46: print(f'{self.customer_id} Purchase successful!')
purchase_successful ==
    /\ pc = "print"
    /\ succeeded' = Append(succeeded, [customer |-> frame.self,
                                       date |-> frame.purchase_date,
                                       items |-> CartRepr(frame.pre.basket[frame.self]),
                                       total_cost |-> frame.total_cost,
                                       amount |-> frame.amount])
    /\ pc' = "done"
    /\ UNCHANGED <<balance, basket, purchase_history, quantity, shop_items,
                   purchase_records, frame>>

\* make_purchase called again by the same customer right after a successful
\* make_purchase returned (c.make_purchase(shop); c.make_purchase(shop)): the
\* first call returns and the second starts, lines 32-37 and 42.  prev keeps
\* what the first call worked on, charged and took from the stock.
make_purchase_again(c, date) ==
    /\ pc = "done"
    /\ frame.op = "make_purchase"
    /\ frame.self = c
    /\ Len(purchase_records) < MaxPurchases
    /\ LET total_cost == TotalCost(c, basket[c])
       IN  /\ frame' = [op |-> "make_purchase", self |-> c,
                        total_cost |-> total_cost, purchase_date |-> date,
                        amount |-> 0,
                        pre |-> [balance |-> balance, basket |-> basket,
                                 purchase_history |-> purchase_history,
                                 quantity |-> quantity,
                                 purchase_records |-> purchase_records],
                        prev |-> [basket |-> frame.pre.basket[c],
                                  total_cost |-> frame.total_cost,
                                  amount |-> frame.amount,
                                  taken |-> [i \in Items |->
                                                frame.pre.quantity[i] - quantity[i]]]]
           /\ pc' = IF InsufficientFunds(total_cost, balance[c]) THEN "raised" ELSE "history"
    /\ UNCHANGED <<balance, basket, purchase_history, quantity, shop_items,
                   purchase_records, succeeded>>

\* ---- the history queries ----

\* Customer.view_purchase_history: the lines it prints.
view_purchase_history(c) ==
    /\ pc = "idle"
    /\ frame' = [op |-> "view_purchase_history", self |-> c,
                 out |-> <<"Purchase History:">>
                         \o (IF Len(purchase_history[c]) = 0
                             THEN <<"No recent purchases.">> ELSE <<>>)
                         \o Reversed(purchase_history[c])]
    /\ pc' = "done"
    /\ UNCHANGED <<balance, basket, purchase_history, quantity, shop_items,
                   purchase_records, succeeded>>

\* EShop.shop_purchase_history: the lines it prints.
shop_purchase_history ==
    /\ pc = "idle"
    /\ frame' = [op |-> "shop_purchase_history",
                 out |-> <<"EShop purchase history:">> \o Reversed(purchase_records)]
    /\ pc' = "done"
    /\ UNCHANGED <<balance, basket, purchase_history, quantity, shop_items,
                   purchase_records, succeeded>>

\* The call returns to its caller, or the caller catches the ValueError.
Return ==
    /\ pc \in {"done", "raised"}
    /\ pc' = "idle"
    /\ frame' = NoFrame
    /\ UNCHANGED <<balance, basket, purchase_history, quantity, shop_items,
                   purchase_records, succeeded>>

Next ==
    \/ \E i \in Items : ShopAddItem(i)
    \/ \E c \in Customers, i \in Items, q \in 1..MaxQty : add_item(c, i, q)
    \/ \E c \in Customers, i \in Items : remove_item(c, i)
    \/ \E c \in Customers, i \in Items, q \in 1..MaxQty : increase_quantity(c, i, q)
    \/ \E c \in Customers, i \in Items, q \in 1..MaxQty : decrease_quantity(c, i, q)
    \/ \E c \in Customers, d \in Dates : make_purchase(c, d)
    \/ \E c \in Customers, d \in Dates : make_purchase_again(c, d)
    \/ append_history
    \/ process_purchase
    \/ decrease_customer_balance
    \/ decrease_quantities
    \/ purchase_successful
    \/ \E c \in Customers : view_purchase_history(c)
    \/ shop_purchase_history
    \/ Return

Spec == Init /\ [][Next]_vars

\* ---- properties ----

InPurchase == frame.op = "make_purchase"

\* Everything a purchase may change is as it was when the call started.
Untouched ==
    /\ balance = frame.pre.balance
    /\ basket = frame.pre.basket
    /\ purchase_history = frame.pre.purchase_history
    /\ quantity = frame.pre.quantity
    /\ purchase_records = frame.pre.purchase_records

\* The cart of the purchase in progress, as it was when the call started.
Cart == frame.pre.basket[frame.self]

\* Some entry of the cart asks for more than the catalog item of its name holds.
Short(items, x) ==
    LET k == FirstShopItem(shop_items, ItemName(items[x][1]))
    IN  k # 0 /\ items[x][2] > frame.pre.quantity[shop_items[k]]

StockShort == \E x \in 1..Len(Cart) : Short(Cart, x)

\* C1: every catalog item's quantity is >= 0 in every reachable state.
C1_QuantityNonNegative == \A i \in Items : quantity[i] >= 0

\* C2: every customer's balance is >= 0 in every reachable state.
C2_BalanceNonNegative == \A c \in Customers : balance[c] >= 0

\* C3: a purchase that passes the funds gate fails, with nothing changed, when
\* some cart entry asks for more than the stock of the catalog item of its
\* name, and succeeds when no entry does.
C3_StockGate ==
    (InPurchase /\ frame.total_cost <= frame.pre.balance[frame.self]) =>
        IF StockShort THEN pc = "raised" /\ Untouched ELSE pc # "raised"

\* C4: a purchase whose discounted total is greater than the balance fails and
\* leaves balance, history, quantities, ledger and cart as they were.
C4_FundsFailureAtomic ==
    (InPurchase /\ TotalCost(frame.self, Cart) > frame.pre.balance[frame.self]) =>
        pc = "raised" /\ Untouched

C4_Witness ==
    /\ InPurchase
    /\ pc = "raised"
    /\ Len(Cart) > 0
    /\ Len(purchase_records) > 0

\* C5: the funds gate passes exactly when the final total is less than or
\* equal to the balance, and a purchase whose final total equals the balance
\* leaves the balance at 0.
C5_FundsGateStrict ==
    InPurchase =>
        LET final == Round2(TotalCost(frame.self, Cart))
        IN  /\ (pc # "raised") <=> (final <= frame.pre.balance[frame.self])
            /\ (pc = "done" /\ final = frame.pre.balance[frame.self])
                    => balance[frame.self] = 0

\* C6: a successful purchase takes exactly the total recorded in the ledger
\* from the balance and appends exactly one history entry and one ledger record.
C6_SuccessEffects ==
    (InPurchase /\ pc = "done") =>
        LET c == frame.self
            n == Len(frame.pre.purchase_records)
            h == Len(frame.pre.purchase_history[c])
        IN  /\ Len(purchase_records) = n + 1
            /\ SubSeq(purchase_records, 1, n) = frame.pre.purchase_records
            /\ purchase_records[n + 1][1] = c
            /\ balance[c] = frame.pre.balance[c] - purchase_records[n + 1][2]
            /\ Len(purchase_history[c]) = h + 1
            /\ SubSeq(purchase_history[c], 1, h) = frame.pre.purchase_history[c]

C6_Witness ==
    /\ InPurchase
    /\ pc = "done"
    /\ Len(purchase_records) = 2
    /\ purchase_records[2][2] > 0

\* The quantity the cart asks for under the given name, over all its entries.
RECURSIVE Requested(_, _)
Requested(items, name) ==
    IF items = <<>> THEN 0
    ELSE (IF ItemName(Head(items)[1]) = name THEN Head(items)[2] ELSE 0)
         + Requested(Tail(items), name)

\* The item is the one a lookup of its name in the catalog finds.
Listed(i) ==
    \E k \in 1..Len(shop_items) :
        /\ shop_items[k] = i
        /\ \A j \in 1..(k - 1) : ItemName(shop_items[j]) # ItemName(i)

\* C7: a successful purchase lowers the quantity of each catalog item that the
\* lookup by name finds by the quantity the cart asks for under that name, and
\* leaves every other item's quantity as it was.
C7_QuantitiesDecreased ==
    (InPurchase /\ pc = "done") =>
        \A i \in Items :
            quantity[i] = frame.pre.quantity[i]
                          - (IF Listed(i) THEN Requested(Cart, ItemName(i)) ELSE 0)

C7_Witness ==
    /\ InPurchase
    /\ pc = "done"
    /\ Len(Cart) = 2
    /\ ItemName(Cart[1][1]) = ItemName(Cart[2][1])
    /\ Len(shop_items) = 2
    /\ Listed(Cart[1][1]) \/ Listed(Cart[2][1])
    /\ \E i \in Items : quantity[i] = frame.pre.quantity[i]

\* The cart's total cost, price times quantity summed over the entries.
RECURSIVE RawTotal(_)
RawTotal(items) ==
    IF items = <<>> THEN 0
    ELSE RawTotal(Tail(items)) + Head(items)[2] * ItemPrice(Head(items)[1])

\* The amount a purchase of the cart is to charge: the raw total rounded to
\* hundredths, then nine tenths of it for a golden customer, rounded again.
Hundredths(x) ==
    CHOOSE y \in {10 * (x \div 10), 10 * (x \div 10) + 10} :
        LET z == 10 * (x \div 10) + (10 * (x \div 10) + 10) - y
        IN  \/ 2 * x < y + z /\ y < z
            \/ 2 * x > y + z /\ y > z
            \/ 2 * x = y + z /\ (y \div 10) % 2 = 0

FinalTotal(c, items) ==
    IF c = "golden customer"
    THEN Hundredths((9 * Hundredths(RawTotal(items))) \div 10)
    ELSE Hundredths(RawTotal(items))

\* C8: the total charged and recorded is round(round(rawTotal, 2) * 0.9, 2)
\* for a golden customer and round(rawTotal, 2) for a regular one.
C8_DiscountAfterRounding ==
    (InPurchase /\ pc = "done") =>
        LET c == frame.self
            n == Len(purchase_records)
        IN  /\ purchase_records[n][2] = FinalTotal(c, Cart)
            /\ frame.pre.balance[c] - balance[c] = FinalTotal(c, Cart)

\* A golden purchase where rounding first matters: 0.016 is charged 0.02,
\* nine tenths of 0.016 rounded would be 0.01.
C8_Witness ==
    /\ InPurchase
    /\ pc = "done"
    /\ frame.self = "golden customer"
    /\ RawTotal(Cart) % 10 # 0
    /\ FinalTotal(frame.self, Cart) # Hundredths((9 * RawTotal(Cart)) \div 10)

\* The four mutations of a purchase happen in the order history, ledger,
\* balance, quantities, each once: at each position of the call exactly the
\* mutations before it have been made.
HistoryAppended ==
    /\ Len(purchase_history[frame.self]) = Len(frame.pre.purchase_history[frame.self]) + 1
    /\ \A c \in Customers \ {frame.self} :
            purchase_history[c] = frame.pre.purchase_history[c]
LedgerAppended == Len(purchase_records) = Len(frame.pre.purchase_records) + 1
BalanceDecreased ==
    balance = [frame.pre.balance EXCEPT ![frame.self] = @ - frame.amount]
QuantitiesDecreased ==
    \A i \in Items :
        quantity[i] = frame.pre.quantity[i]
                      - (IF Listed(i) THEN Requested(Cart, ItemName(i)) ELSE 0)

MutationOrder ==
    InPurchase =>
        /\ pc \in {"history", "raised"} => Untouched
        /\ pc \in {"records", "balance", "quantities", "print", "done"} => HistoryAppended
        /\ pc = "records" => purchase_records = frame.pre.purchase_records
        /\ pc \in {"balance", "quantities", "print", "done"} => LedgerAppended
        /\ pc \in {"records", "balance"} => balance = frame.pre.balance
        /\ pc \in {"quantities", "print", "done"} => BalanceDecreased
        /\ pc \in {"records", "balance", "quantities"} => quantity = frame.pre.quantity
        /\ pc \in {"print", "done"} => QuantitiesDecreased

\* C9: the mutations of a purchase happen in the order history, ledger, balance,
\* quantities, each once, and none before both the funds gate and the stock
\* gate have been evaluated and passed.
C9_OrderAfterBothGates ==
    /\ MutationOrder
    /\ (InPurchase /\ ~Untouched) =>
            /\ frame.total_cost <= frame.pre.balance[frame.self]
            /\ ~StockShort

\* A history or the ledger changes only by one entry added at its end.
Extended(old, new) ==
    \/ new = old
    \/ Len(new) = Len(old) + 1 /\ \A k \in 1..Len(old) : new[k] = old[k]

AppendOnly ==
    /\ Extended(purchase_records, purchase_records')
    /\ \A c \in Customers : Extended(purchase_history[c], purchase_history'[c])

\* The successful purchases of a customer, oldest first.
RECURSIVE PurchasesOf(_, _)
PurchasesOf(log, c) ==
    IF log = <<>> THEN <<>>
    ELSE (IF Head(log).customer = c
          THEN <<[date |-> Head(log).date, items |-> Head(log).items,
                  total_cost |-> Head(log).total_cost]>>
          ELSE <<>>) \o PurchasesOf(Tail(log), c)

\* What the two history queries print after the heading is the successful
\* purchases, the most recent first.
MostRecentFirst ==
    /\ (pc = "done" /\ frame.op = "view_purchase_history") =>
            LET mine == PurchasesOf(succeeded, frame.self)
                n == Len(mine)
            IN  IF n = 0
                THEN frame.out = <<"Purchase History:", "No recent purchases.">>
                ELSE /\ Len(frame.out) = n + 1
                     /\ \A k \in 1..n : frame.out[k + 1] = mine[n + 1 - k]
    /\ (pc = "done" /\ frame.op = "shop_purchase_history") =>
            LET n == Len(succeeded)
            IN  /\ Len(frame.out) = n + 1
                /\ \A k \in 1..n :
                        frame.out[k + 1] = <<succeeded[n + 1 - k].customer,
                                             succeeded[n + 1 - k].amount>>

\* C10: histories and the ledger only grow by one entry at the end, and the
\* history queries yield the successful purchases most recent first (an empty
\* history prints without error).
C10_AppendOnlyMostRecentFirst == [][AppendOnly]_vars /\ []MostRecentFirst

C10_Witness ==
    /\ pc = "done"
    /\ frame.op = "shop_purchase_history"
    /\ Len(frame.out) = 3
    /\ frame.out[2] # frame.out[3]
    /\ \E c \in Customers : Len(purchase_history[c]) = 2
                            /\ purchase_history[c][1] # purchase_history[c][2]

\* The cart a ledger record leads to: the record holds the customer object,
\* whose basket is the customer's cart as it is now.
RecordCart(record) == CartRepr(basket[record[1]])

\* The date a ledger record holds: the tuple appended at line 130 has two
\* components, the customer and the total.
RecordDate(record) == IF Len(record) > 2 THEN record[3] ELSE "no date"

\* C11: every ledger record of a completed purchase carries the customer, the
\* date, the cart contents as they were at purchase time and the final total,
\* and later cart operations and purchases do not change what it records.
C11_LedgerRecordImmutable ==
    \A k \in 1..Len(succeeded) :
        /\ purchase_records[k][1] = succeeded[k].customer
        /\ purchase_records[k][2] = succeeded[k].amount
        /\ RecordCart(purchase_records[k]) = succeeded[k].items
        /\ RecordDate(purchase_records[k]) = succeeded[k].date

\* What belongs to one customer.
Own(c) == <<basket[c], balance[c], purchase_history[c]>>

\* A step of a purchase changes nothing of a customer other than the buyer,
\* and no step changes what belongs to two customers.
OthersUnchanged ==
    /\ \A c \in Customers :
            (frame.op = "make_purchase" /\ pc # "idle" /\ frame.self # c) => Own(c)' = Own(c)
    /\ \A c, d \in Customers :
            (Own(c)' # Own(c) /\ Own(d)' # Own(d)) => c = d

\* C12: each customer starts with an empty cart of its own, and a cart
\* operation or purchase attempt of one customer leaves every other
\* customer's cart, balance and history unchanged.
C12_CartsNotShared ==
    /\ \A c \in Customers : basket[c] = <<>>
    /\ [][OthersUnchanged]_vars

C12_Witness ==
    /\ pc = "done"
    /\ frame.op = "make_purchase"
    /\ \A c \in Customers : Len(basket[c]) = 1
    /\ basket["regular"] # basket["golden customer"]
    /\ Len(purchase_history["regular"]) # Len(purchase_history["golden customer"])

\* The quantity the cart holds of one item object, over all its entries.
RECURSIVE Held(_, _)
Held(items, i) ==
    IF items = <<>> THEN 0
    ELSE (IF Head(items)[1] = i THEN Head(items)[2] ELSE 0) + Held(Tail(items), i)

\* Price times held quantity, summed over the item objects.
RECURSIVE CostByItem(_, _)
CostByItem(items, is) ==
    IF is = {} THEN 0
    ELSE LET i == CHOOSE x \in is : TRUE
         IN  ItemPrice(i) * Held(items, i) + CostByItem(items, is \ {i})

\* C13: the total cost a purchase computes is the sum of price times quantity
\* over the entries (several entries of one item included), it is 0 for an
\* empty cart, and computing it changes neither the cart nor any item.
C13_TotalCost ==
    /\ \A c \in Customers :
            /\ calculate_total_cost(basket[c]) = CostByItem(basket[c], Items)
            /\ basket[c] = <<>> => calculate_total_cost(basket[c]) = 0
    /\ InPurchase =>
            /\ frame.total_cost =
                    IF frame.self = "golden customer"
                    THEN (9 * Hundredths(CostByItem(Cart, Items))) \div 10
                    ELSE Hundredths(CostByItem(Cart, Items))
            /\ pc \in {"history", "raised"} => Untouched

C13_Witness ==
    /\ InPurchase
    /\ pc \in {"history", "raised"}
    /\ Len(Cart) = 2
    /\ Cart[1][1] = Cart[2][1]
    /\ Cart[1][2] # Cart[2][2]

\* A step between calls that changes a cart.
CartStep == pc = "idle" /\ pc' = "idle" /\ basket' # basket

\* x is the first entry of the cart that holds the item.
Matches(items, x, i) ==
    /\ x \in 1..Len(items)
    /\ items[x][1] = i
    /\ \A y \in 1..(x - 1) : items[y][1] # i

\* new is items without its entry x, the others in their order.
Without(items, x, new) ==
    /\ Len(new) = Len(items) - 1
    /\ \A y \in 1..Len(new) : new[y] = IF y < x THEN items[y] ELSE items[y + 1]

\* new is items with entry x holding quantity n, everything else as it was.
Requantified(items, x, n, new) ==
    /\ Len(new) = Len(items)
    /\ \A y \in 1..Len(new) : new[y] = IF y = x THEN <<items[x][1], n>> ELSE items[y]

EntryQuantitiesPositive ==
    \A c \in Customers : \A x \in 1..Len(basket[c]) : basket[c][x][2] >= 1

\* decrease_quantity drops the entry when quantity minus delta is <= 0 and
\* stores the reduced quantity otherwise.
DecreaseEffect ==
    CartStep =>
        \A c \in Customers, i \in Items, q \in 1..MaxQty :
            decrease_quantity(c, i, q) =>
                \A x \in 1..Len(basket[c]) :
                    Matches(basket[c], x, i) =>
                        IF basket[c][x][2] - q <= 0
                        THEN Len(basket'[c]) = Len(basket[c]) - 1
                        ELSE /\ Len(basket'[c]) = Len(basket[c])
                             /\ basket'[c][x][2] = basket[c][x][2] - q

\* C14: with positive quantity and delta arguments every cart entry has
\* quantity >= 1 in every state; decrease_quantity removes the entry when the
\* quantity minus delta is <= 0 and stores the reduced quantity otherwise.
C14_EntryQuantityPositive == []EntryQuantitiesPositive /\ [][DecreaseEffect]_vars

\* A cart from which decrease_quantity reduces the first entry (delta 1) or
\* removes it (delta 2).
C14_Witness ==
    \E c \in Customers :
        /\ pc = "idle"
        /\ basket[c] = << <<"i1", 2>>, <<"i2", 1>> >>
        /\ ENABLED (decrease_quantity(c, "i1", 1)
                    /\ basket'[c] = << <<"i1", 1>>, <<"i2", 1>> >>)
        /\ ENABLED (decrease_quantity(c, "i1", 2)
                    /\ basket'[c] = << <<"i2", 1>> >>)

\* remove_item, increase_quantity and decrease_quantity change the first entry
\* of the item and nothing else; without such an entry they change nothing.
FirstMatchOnly ==
    CartStep =>
        \A c \in Customers, i \in Items :
            LET items == basket[c]
                none == \A x \in 1..Len(items) : items[x][1] # i
            IN  /\ remove_item(c, i) =>
                    /\ none => basket' = basket
                    /\ \A x \in 1..Len(items) :
                            Matches(items, x, i) => Without(items, x, basket'[c])
                /\ \A q \in 1..MaxQty :
                    /\ increase_quantity(c, i, q) =>
                        /\ none => basket' = basket
                        /\ \A x \in 1..Len(items) :
                                Matches(items, x, i) =>
                                    Requantified(items, x, items[x][2] + q, basket'[c])
                    /\ decrease_quantity(c, i, q) =>
                        /\ none => basket' = basket
                        /\ \A x \in 1..Len(items) :
                                Matches(items, x, i) =>
                                    \/ Without(items, x, basket'[c])
                                    \/ Requantified(items, x, items[x][2] - q, basket'[c])

\* C15: remove, increaseQuantity and decreaseQuantity act on the first entry
\* matching the item only; the other entries keep item, quantity and order,
\* and with no matching entry the cart is unchanged.
C15_FirstMatchOnly == [][FirstMatchOnly]_vars

\* A cart with two entries of one item, from which each operation changes the
\* first of them only, and an operation on an absent item changes nothing.
C15_Witness ==
    \E c \in Customers :
        /\ pc = "idle"
        /\ basket[c] = << <<"i1", 1>>, <<"i1", 2>> >>
        /\ ENABLED (remove_item(c, "i1") /\ basket'[c] = << <<"i1", 2>> >>)
        /\ ENABLED (increase_quantity(c, "i1", 1)
                    /\ basket'[c] = << <<"i1", 2>>, <<"i1", 2>> >>)
        /\ ENABLED (decrease_quantity(c, "i1", 1) /\ basket'[c] = << <<"i1", 2>> >>)
        /\ ENABLED (remove_item(c, "i2") /\ basket' = basket)

\* add_item appends the entry at the end of the customer's cart.
Appended ==
    CartStep =>
        \A c \in Customers, i \in Items, q \in 1..MaxQty :
            add_item(c, i, q) =>
                /\ Len(basket'[c]) = Len(basket[c]) + 1
                /\ basket'[c][Len(basket[c]) + 1] = <<i, q>>
                /\ \A x \in 1..Len(basket[c]) : basket'[c][x] = basket[c][x]

\* C16: every add(item, quantity) appends exactly one new entry (item,
\* quantity) at the end of the cart and leaves the existing entries unchanged,
\* also when the cart already holds an entry for the item.
C16_AddNeverMerges == [][Appended]_vars

\* Only add_item makes entries: two entries of one item object show an add
\* on a cart that already held the item.
C16_Witness ==
    \E c \in Customers :
        /\ Len(basket[c]) = 2
        /\ basket[c][1][1] = basket[c][2][1]
        /\ basket[c][1][2] # basket[c][2][2]

\* The cart entry's name is the name of no catalog item.
Unmatched(entry) == \A k \in 1..Len(shop_items) : ItemName(shop_items[k]) # ItemName(entry[1])

\* The quantity the cart asks for in entries whose lookup by name finds the
\* catalog item at index k.
RECURSIVE Found(_, _)
Found(items, k) ==
    IF items = <<>> THEN 0
    ELSE (IF /\ ItemName(shop_items[k]) = ItemName(Head(items)[1])
             /\ \A j \in 1..(k - 1) : ItemName(shop_items[j]) # ItemName(Head(items)[1])
          THEN Head(items)[2] ELSE 0) + Found(Tail(items), k)

\* C17: a cart entry whose name matches no catalog item does not stop the
\* purchase, its price times quantity is charged, and no item's quantity
\* changes on account of it; of several catalog items with the entry's name
\* only the first in catalog order is decremented.
C17_SilentSkip ==
    /\ (InPurchase /\ frame.total_cost <= frame.pre.balance[frame.self]) => pc # "raised"
    /\ (InPurchase /\ pc = "done") =>
            /\ frame.pre.balance[frame.self] - balance[frame.self]
                    = FinalTotal(frame.self, Cart)
            /\ (\A x \in 1..Len(Cart) : Unmatched(Cart[x])) => quantity = frame.pre.quantity
            /\ \A i \in Items :
                    (\A k \in 1..Len(shop_items) : shop_items[k] # i)
                        => quantity[i] = frame.pre.quantity[i]
            /\ \A k \in 1..Len(shop_items) :
                    (\A j \in 1..Len(shop_items) : j # k => shop_items[j] # shop_items[k])
                        => frame.pre.quantity[shop_items[k]] - quantity[shop_items[k]]
                                = Found(Cart, k)

\* A purchase of chips and milk from a catalog of two milk items: the chips
\* are charged and skipped, the first milk item is decremented, the second not.
C17_Witness ==
    /\ InPurchase
    /\ pc = "done"
    /\ Len(shop_items) = 2
    /\ shop_items[1] # shop_items[2]
    /\ ItemName(shop_items[1]) = ItemName(shop_items[2])
    /\ Len(Cart) = 2
    /\ \E x \in 1..2 : Unmatched(Cart[x]) /\ ~Unmatched(Cart[3 - x])
    /\ quantity[shop_items[1]] < frame.pre.quantity[shop_items[1]]
    /\ quantity[shop_items[2]] = frame.pre.quantity[shop_items[2]]
    /\ frame.amount > 0

\* C18: a purchase attempt, successful or failed, leaves the cart as it was; an
\* attempt made right after a successful one works on the same cart and, when
\* it passes, charges the same total and takes the same quantities again.
C18_CartKeptRepeatPurchase ==
    InPurchase =>
        /\ basket = frame.pre.basket
        /\ "prev" \in DOMAIN frame =>
                /\ Cart = frame.prev.basket
                /\ frame.total_cost = frame.prev.total_cost
                /\ pc = "done" =>
                        /\ frame.pre.balance[frame.self] - balance[frame.self]
                                = frame.prev.amount
                        /\ purchase_records[Len(purchase_records)][2] = frame.prev.amount
                        /\ \A i \in Items :
                                frame.pre.quantity[i] - quantity[i] = frame.prev.taken[i]

C18_Witness ==
    /\ InPurchase
    /\ "prev" \in DOMAIN frame
    /\ pc = "done"
    /\ frame.prev.amount > 0
    /\ \E i \in Items : frame.prev.taken[i] > 0

\* The totals of the ledger records of a customer, added up.
RECURSIVE Charged(_, _)
Charged(records, c) ==
    IF records = <<>> THEN 0
    ELSE (IF Head(records)[1] = c THEN Head(records)[2] ELSE 0) + Charged(Tail(records), c)

\* C19 as stated: for every customer the initial balance minus the current
\* balance is the sum of the totals of the ledger records of that customer, in
\* every reachable state.
C19_ConservationEveryState ==
    \A c \in Customers : InitBalance(c) - balance[c] = Charged(purchase_records, c)

\* C19, amended: the same in every state but the one inside process_purchase
\* between the append of the record (line 130) and the decrease of the balance
\* (line 131), so in every state between two calls.
C19_MoneyConservation ==
    pc # "balance" =>
        \A c \in Customers : InitBalance(c) - balance[c] = Charged(purchase_records, c)

C19_Witness ==
    /\ pc = "idle"
    /\ Len(purchase_records) = 2
    /\ purchase_records[1][1] # purchase_records[2][1]
    /\ purchase_records[1][2] > 0
    /\ purchase_records[2][2] > 0

\* C20: the total in the history entry of a successful purchase is the total
\* in its ledger record and the amount taken from the balance.
C20_SameTotalEverywhere ==
    (InPurchase /\ pc = "done") =>
        LET c == frame.self
            h == purchase_history[c][Len(purchase_history[c])]
            r == purchase_records[Len(purchase_records)]
        IN  /\ h.total_cost = r[2]
            /\ r[2] = frame.pre.balance[c] - balance[c]

====
